---- MODULE Spec2Model ----
(***************************************************************************)
(* Model of beatmapbot.py: the polling loop of a reddit bot that replies   *)
(* to comments linking osu! beatmaps, its bounded set of seen comment ids  *)
(* and its LRU-cached metadata lookup.                                     *)
(*                                                                         *)
(* Comments are identified by their position in the append-only stream:    *)
(* comment i is the i-th comment ever posted, so a larger id is newer.     *)
(***************************************************************************)
EXTENDS Integers, Sequences, FiniteSets, TLC

(***************************************************************************)
(* Sizes.  MAX_COMMENTS and OSU_CACHE are read from config.ini; the slack  *)
(* added to the capacity of seen_comments is 100 in the source and is      *)
(* scaled down here: what matters to the loop is whether the window can    *)
(* outrun the slack (MAX_COMMENTS >= SLACK + 2), which these sizes allow.  *)
(***************************************************************************)
MAX_COMMENTS == 3
SLACK == 0
OSU_CACHE == 2
MaxStream == 4
BACKOFF == 15
MaxAdds == 6
MaxKeys == 3
MaxAnchors == 3

(***************************************************************************)
(* URLs and anchors.  A string is a sequence of one-character strings.     *)
(***************************************************************************)
StartsWith(s, p) == Len(s) >= Len(p) /\ SubSeq(s, 1, Len(p)) = p

Url(path, query) == [scheme |-> "https", host |-> "osu.ppy.sh", path |-> path, query |-> query]

PathB1 == <<"/", "b", "/", "1">>
PathS1 == <<"/", "s", "/", "1">>
PathB2 == <<"/", "b", "/", "2">>
PathBeatmap == <<"/", "p", "/", "b", "e", "a", "t", "m", "a", "p">>
PathUser == <<"/", "u", "/", "7">>

Anchor(href, text) == [href |-> href, text |-> text]
Link(u) == Anchor(u, u)

LinkB1 == Link(Url(PathB1, <<>>))
LinkS1 == Link(Url(PathS1, <<>>))
LinkB2 == Link(Url(PathB2, <<>>))
LinkQueryB1 == Link(Url(PathBeatmap, <<<<"b", <<"1">>>>, <<"m", <<"0">>>>>>))
LinkQueryS1 == Link(Url(PathBeatmap, <<<<"m", <<"0">>>>, <<"s", <<"1">>>>>>))
LinkUser == Link(Url(PathUser, <<>>))
LinkSpoofed == Anchor(Url(PathB1, <<>>), Url(PathB2, <<>>))
LinkQueryNone == Link(Url(PathBeatmap, <<<<"m", <<"0">>>>>>))
LinkOtherHost == Link([scheme |-> "https", host |-> "example.org", path |-> PathB1, query |-> <<>>])

(* mutant: the anchor's text is not compared with its href *)
URL_REGEX_anyText(a) ==
    /\ a.href.scheme \in {"http", "https"}
    /\ a.href.host = "osu.ppy.sh"
    /\ Len(a.href.path) + Len(a.href.query) > 1

(* URL_REGEX: an anchor whose text repeats its href, on osu.ppy.sh, with a
   non-empty remainder after the host's slash. *)
URL_REGEX(a) ==
    /\ a.text = a.href
    /\ a.href.scheme \in {"http", "https"}
    /\ a.href.host = "osu.ppy.sh"
    /\ Len(a.href.path) + Len(a.href.query) > 1

(* parse_qs: the values of a name in order of occurrence, blank values dropped. *)
RECURSIVE QueryValues(_, _)
QueryValues(query, name) ==
    IF query = <<>> THEN <<>>
    ELSE LET rest == QueryValues(Tail(query), name)
         IN IF Head(query)[1] = name /\ Head(query)[2] # <<>>
            THEN <<Head(query)[2]>> \o rest
            ELSE rest

NoKey == <<>>

get_map_params(url) ==
    IF StartsWith(url.path, <<"/", "b", "/">>)
    THEN <<"b", SubSeq(url.path, 4, Len(url.path))>>
    ELSE IF StartsWith(url.path, <<"/", "s", "/">>)
    THEN <<"s", SubSeq(url.path, 4, Len(url.path))>>
    ELSE IF url.path = PathBeatmap
    THEN IF QueryValues(url.query, "b") # <<>>
         THEN <<"b", QueryValues(url.query, "b")[1]>>
         ELSE IF QueryValues(url.query, "s") # <<>>
         THEN <<"s", QueryValues(url.query, "s")[1]>>
         ELSE NoKey
    ELSE NoKey

RECURSIVE get_maps_from_string(_)
get_maps_from_string(body) ==
    IF body = <<>> THEN <<>>
    ELSE LET a == Head(body)
             rest == get_maps_from_string(Tail(body))
         IN IF URL_REGEX(a) /\ get_map_params(a.href) # NoKey
            THEN <<get_map_params(a.href)>> \o rest
            ELSE rest

(* The comment bodies the stream draws from. *)
Bodies ==
    { <<LinkUser>>,
      <<LinkS1, LinkQueryB1, LinkS1>> }

(***************************************************************************)
(* Small helpers.                                                          *)
(***************************************************************************)
Range(s) == { s[i] : i \in 1..Len(s) }

Min(a, b) == IF a < b THEN a ELSE b

(***************************************************************************)
(* LimitedSet (module limitedset): an insertion-ordered set of bounded     *)
(* size, kept as the sequence of its members, oldest first.                *)
(***************************************************************************)
LimitedSetContains(s, x) == x \in Range(s)

LimitedSetAdd(s, x, maxlen) ==
    IF x \in Range(s) THEN s
    ELSE IF Len(s) >= maxlen THEN Append(Tail(s), x)
    ELSE Append(s, x)

(* mutant: seen_comments is a plain set that never forgets *)
SeenCapacity_unbounded == MaxAdds + 1

SeenCapacity == MAX_COMMENTS + SLACK

(***************************************************************************)
(* functools.lru_cache(maxsize=OSU_CACHE) around get_beatmap_info: the     *)
(* entries [key, value], least recently used first.                        *)
(***************************************************************************)
CacheKeys(c) == { c[i].key : i \in 1..Len(c) }

(* mutant: entries are told apart by the map id alone *)
SameKey_idOnly(a, b) == a[2] = b[2]

(* the cache key is the pair of arguments (map_type, map_id) *)
SameKey(a, b) == a = b

CacheIndex(c, key) == CHOOSE i \in 1..Len(c) : SameKey(c[i].key, key)

CacheValue(c, key) == c[CacheIndex(c, key)].value

Without(c, i) == SubSeq(c, 1, i - 1) \o SubSeq(c, i + 1, Len(c))

(* mutant: a hit leaves the order alone, so eviction is first in, first out *)
CacheTouch_keepsOrder(c, key) == c

(* a hit moves the entry to the most recently used end *)
CacheTouch(c, key) == Append(Without(c, CacheIndex(c, key)), c[CacheIndex(c, key)])

(* a miss whose call returned stores the result, evicting the least recently used *)
CacheStore(c, key, value, maxsize) ==
    IF maxsize = 0 THEN c
    ELSE IF Len(c) >= maxsize THEN Append(Tail(c), [key |-> key, value |-> value])
    ELSE Append(c, [key |-> key, value |-> value])

(* The payloads r.json() can hold without an "error" field: a list of
   records, empty when the service knows no such map. *)
Payloads == { <<>>, <<"r1">> }

(***************************************************************************)
(* format_comment: the keys without duplicates, first occurrences kept.    *)
(***************************************************************************)
(* mutant: no deduplication, every key is formatted *)
maps_without_dups_keepsAll(maps) == maps

RECURSIVE maps_without_dups(_)
maps_without_dups(maps) ==
    IF maps = <<>> THEN <<>>
    ELSE LET front == maps_without_dups(SubSeq(maps, 1, Len(maps) - 1))
             last == maps[Len(maps)]
         IN IF last \in Range(front) THEN front ELSE Append(front, last)

(* the block format_map renders for a key from the first record of its payload *)
format_map(key, payload) == <<key, payload[1]>>

(***************************************************************************)
(* State.                                                                  *)
(*   stream      body of every comment posted so far (index = comment id)  *)
(*   replies     the bot's replies under each comment, as posted           *)
(*   seen        seen_comments                                             *)
(*   cache       the lru_cache of get_beatmap_info                         *)
(*   pc, err     where the main loop is, and the exception being raised    *)
(*               (once stopped: the exception that ended the process)      *)
(*   batch, idx  the comments of this cycle, newest first, and the         *)
(*               position of the for loop in them                          *)
(*   found       the keys extracted from the current comment               *)
(*   maps, mi    format_comment's deduplicated keys and the next to format *)
(*   blocks      the blocks format_map has rendered so far                 *)
(* History, for stating properties:                                        *)
(*   trace       the steps of the current cycle, <<step, comment id>>      *)
(*   aborted     ids whose processing an exception cut short               *)
(*   everSeen    ids ever added to seen_comments by this process           *)
(*   stoppedAt   batch position where this cycle met a seen id (0: none)   *)
(*   slept       seconds slept since the last cycle ended                  *)
(*   lastCycle   how the last cycle ended                                  *)
(*   lastCall    the last get_beatmap_info call, its outcome, and the one  *)
(*               before it                                                 *)
(*   failedKeys  keys whose latest get_beatmap_info call raised            *)
(*   recency     the keys get_beatmap_info returned a payload for, the     *)
(*               most recently returned last                               *)
(***************************************************************************)
VARIABLES stream, replies, seen, cache, pc, err, batch, idx, found, maps, mi,
          blocks, trace, aborted, everSeen, stoppedAt, slept, lastCycle,
          lastCall, failedKeys, recency

vars == <<stream, replies, seen, cache, pc, err, batch, idx, found, maps, mi,
          blocks, trace, aborted, everSeen, stoppedAt, slept, lastCycle,
          lastCall, failedKeys, recency>>

(* the site, the cache instrumentation, and the memory of the process *)
site == <<stream, replies>>
calls == <<lastCall, failedKeys, recency>>

Ids == 1..MaxStream

NoCall ==
    [key |-> NoKey, outcome |-> "none", value |-> <<>>,
     pkey |-> NoKey, poutcome |-> "none", pvalue |-> <<>>, tick |-> 0]

Init ==
    /\ stream = <<>>
    /\ replies = [c \in Ids |-> <<>>]
    /\ seen = <<>>
    /\ cache = <<>>
    /\ pc = "fetch"
    /\ err = "none"
    /\ batch = <<>>
    /\ idx = 1
    /\ found = <<>>
    /\ maps = <<>>
    /\ mi = 1
    /\ blocks = <<>>
    /\ trace = <<>>
    /\ aborted = {}
    /\ everSeen = {}
    /\ stoppedAt = 0
    /\ slept = 0
    /\ lastCycle = "none"
    /\ lastCall = NoCall
    /\ failedKeys = {}
    /\ recency = <<>>

(***************************************************************************)
(* The comment source: somebody posts a comment.                           *)
(***************************************************************************)
NewComment ==
    /\ Len(stream) < MaxStream
    /\ \E b \in Bodies : stream' = Append(stream, b)
    /\ UNCHANGED <<replies, seen, cache, pc, err, batch, idx, found, maps, mi,
                   blocks, trace, aborted, everSeen, stoppedAt, slept,
                   lastCycle, calls>>

(***************************************************************************)
(* Leaving the try block.                                                  *)
(***************************************************************************)
(* an exception of the given kind is raised inside the try block *)
Raise(kind) ==
    /\ pc' = "raised"
    /\ err' = kind
    /\ lastCycle' = "failed"

(* mutant: the loop backs off after every cycle, clean or not *)
EndCycle_sleeps ==
    /\ pc' = "sleeping"
    /\ lastCycle' = "clean"

(* the cycle ends without an exception: back to the head of `while True` *)
EndCycle ==
    /\ pc' = "fetch"
    /\ lastCycle' = "clean"

(***************************************************************************)
(* r.get_comments(subreddit, limit=MAX_COMMENTS): the newest comments,     *)
(* newest first.                                                           *)
(***************************************************************************)
get_comments(limit) ==
    [k \in 1..Min(limit, Len(stream)) |-> Len(stream) - k + 1]

FetchOk ==
    /\ pc = "fetch"
    /\ batch' = get_comments(MAX_COMMENTS)
    /\ idx' = 1
    /\ pc' = "iter"
    /\ trace' = <<>>
    /\ stoppedAt' = 0
    /\ slept' = 0
    /\ UNCHANGED <<site, seen, cache, err, found, maps, mi, blocks, aborted,
                   everSeen, lastCycle, calls>>

FetchFail ==
    /\ pc = "fetch"
    /\ batch' = <<>>
    /\ idx' = 1
    /\ trace' = <<>>
    /\ stoppedAt' = 0
    /\ slept' = 0
    /\ Raise("SourceError")
    /\ UNCHANGED <<site, seen, cache, found, maps, mi, blocks, aborted,
                   everSeen, calls>>

(***************************************************************************)
(* The body of the for loop, up to the extraction.                         *)
(***************************************************************************)
cur == batch[idx]

Log(steps) == trace' = trace \o steps

(* for ... in comments: the batch is exhausted *)
BatchDone ==
    /\ pc = "iter"
    /\ idx > Len(batch)
    /\ EndCycle
    /\ UNCHANGED <<site, seen, cache, err, batch, idx, found, maps, mi, blocks,
                   trace, aborted, everSeen, stoppedAt, slept, calls>>

(* mutant: continue instead of break on a seen id *)
OnSeen_continues ==
    /\ idx' = idx + 1
    /\ stoppedAt' = idx
    /\ UNCHANGED <<pc, lastCycle, seen, everSeen, found, trace>>

(* what the loop does on a comment whose id is in seen_comments: break *)
OnSeen ==
    /\ EndCycle
    /\ stoppedAt' = idx
    /\ UNCHANGED <<idx, seen, everSeen, found, trace>>

SeenBreak ==
    /\ pc = "iter"
    /\ idx <= Len(batch)
    /\ LimitedSetContains(seen, cur)
    /\ OnSeen
    /\ UNCHANGED <<site, cache, err, batch, maps, mi, blocks, aborted, slept,
                   calls>>

(* seen_comments.add(comment.id); found = get_maps_from_string(comment.body_html) *)
MarkAndExtract ==
    /\ pc = "iter"
    /\ idx <= Len(batch)
    /\ ~LimitedSetContains(seen, cur)
    /\ seen' = LimitedSetAdd(seen, cur, SeenCapacity)
    /\ everSeen' = everSeen \cup {cur}
    /\ found' = get_maps_from_string(stream[cur])
    /\ Log(<< <<"add", cur>>, <<"extract", cur>> >>)

(* mutant: a comment without maps ends the batch *)
NoMaps_breaks ==
    /\ MarkAndExtract
    /\ found' = <<>>
    /\ EndCycle
    /\ UNCHANGED <<site, cache, err, batch, idx, maps, mi, blocks, aborted,
                   stoppedAt, slept, calls>>

(* if not found: continue *)
NoMaps ==
    /\ MarkAndExtract
    /\ found' = <<>>
    /\ idx' = idx + 1
    /\ UNCHANGED <<site, cache, pc, err, batch, maps, mi, blocks, aborted,
                   stoppedAt, slept, lastCycle, calls>>

(* mutant: a comment without beatmap links is processed like any other *)
FoundMaps_always ==
    /\ MarkAndExtract
    /\ pc' = "has_replied"
    /\ UNCHANGED <<site, cache, err, batch, idx, maps, mi, blocks, aborted,
                   stoppedAt, slept, lastCycle, calls>>

FoundMaps ==
    /\ MarkAndExtract
    /\ found' # <<>>
    /\ pc' = "has_replied"
    /\ UNCHANGED <<site, cache, err, batch, idx, maps, mi, blocks, aborted,
                   stoppedAt, slept, lastCycle, calls>>

(***************************************************************************)
(* has_replied(comment, r): is there a reply by the bot under the comment. *)
(***************************************************************************)
(* mutant: the check never finds the bot's reply *)
has_replied_blind(c) == FALSE

has_replied(c) == replies[c] # <<>>

(* mutant: a comment already replied to is skipped and the batch goes on *)
HasRepliedTrue_continues ==
    /\ pc = "has_replied"
    /\ has_replied(cur)
    /\ Log(<< <<"has_replied", cur>> >>)
    /\ idx' = idx + 1
    /\ pc' = "iter"
    /\ UNCHANGED <<site, seen, cache, err, batch, found, maps, mi, blocks,
                   aborted, everSeen, stoppedAt, slept, lastCycle, calls>>

HasRepliedTrue ==
    /\ pc = "has_replied"
    /\ has_replied(cur)
    /\ Log(<< <<"has_replied", cur>> >>)
    /\ EndCycle
    /\ UNCHANGED <<site, seen, cache, err, batch, idx, found, maps, mi, blocks,
                   aborted, everSeen, stoppedAt, slept, calls>>

(* no reply yet: format_comment(found) starts with the deduplication *)
HasRepliedFalse ==
    /\ pc = "has_replied"
    /\ ~has_replied(cur)
    /\ Log(<< <<"has_replied", cur>> >>)
    /\ maps' = maps_without_dups(found)
    /\ mi' = 1
    /\ blocks' = <<>>
    /\ pc' = "format"
    /\ UNCHANGED <<site, seen, cache, err, batch, idx, found, aborted, everSeen,
                   stoppedAt, slept, lastCycle, calls>>

HasRepliedFail ==
    /\ pc = "has_replied"
    /\ Log(<< <<"has_replied", cur>> >>)
    /\ aborted' = aborted \cup {cur}
    /\ Raise("SinkError")
    /\ UNCHANGED <<site, seen, cache, batch, idx, found, maps, mi, blocks,
                   everSeen, stoppedAt, slept, calls>>

(***************************************************************************)
(* get_beatmap_info(map_type, map_id) behind lru_cache.                    *)
(***************************************************************************)
(* what requests.get(...).json() can bring back *)
Responses ==
    { [kind |-> "ok", payload |-> p] : p \in Payloads }
        \cup { [kind |-> "error", payload |-> <<>>],
               [kind |-> "unreachable", payload |-> <<>>] }

(* get_beatmap_info raises: transport failure, or "error" in the payload *)
Raises(resp) == resp.kind # "ok"

(* mutant: no memoization, every call goes to the service *)
IsHit_never(c, key) == FALSE

(* lru_cache: is the call answered from the cache *)
IsHit(c, key) == \E i \in 1..Len(c) : SameKey(c[i].key, key)

(* mutant: whatever came back is stored, an error too *)
CacheAfterMiss_storesErrors(c, key, resp) ==
    CacheStore(c, key, resp.payload, OSU_CACHE)

(* lru_cache: the cache after a miss whose wrapped call got resp *)
CacheAfterMiss(c, key, resp) ==
    IF Raises(resp) THEN c ELSE CacheStore(c, key, resp.payload, OSU_CACHE)

(* a call answered from the cache *)
GetHit(key) ==
    /\ IsHit(cache, key)
    /\ cache' = CacheTouch(cache, key)

(* a call that goes to the service and gets resp *)
GetMiss(key, resp) ==
    /\ ~IsHit(cache, key)
    /\ cache' = CacheAfterMiss(cache, key, resp)

(***************************************************************************)
(* format_map for maps[mi], called by format_comment's join.               *)
(***************************************************************************)
(* the rest of format_map once get_beatmap_info returned value: [0] of an
   empty list raises IndexError, otherwise the block is rendered *)
Render(key, value) ==
    IF value = <<>>
    THEN /\ Raise("IndexError")
         /\ aborted' = aborted \cup {cur}
         /\ UNCHANGED <<blocks, mi>>
    ELSE /\ blocks' = Append(blocks, format_map(key, value))
         /\ mi' = mi + 1
         /\ pc' = IF mi = Len(maps) THEN "reply" ELSE "format"
         /\ UNCHANGED <<err, lastCycle, aborted>>

LookupHit ==
    /\ pc = "format"
    /\ GetHit(maps[mi])
    /\ Log(<< <<"lookup", cur>> >>)
    /\ Render(maps[mi], CacheValue(cache, maps[mi]))
    /\ UNCHANGED <<site, seen, batch, idx, found, maps, everSeen, stoppedAt,
                   slept, calls>>

LookupFetch ==
    /\ pc = "format"
    /\ \E resp \in Responses :
          /\ ~Raises(resp)
          /\ GetMiss(maps[mi], resp)
          /\ Render(maps[mi], resp.payload)
    /\ Log(<< <<"lookup", cur>> >>)
    /\ UNCHANGED <<site, seen, batch, idx, found, maps, everSeen, stoppedAt,
                   slept, calls>>

(* mutant: what was formatted before the failure is posted *)
LookupFail_postsPartial ==
    /\ pc = "format"
    /\ \E resp \in Responses :
          /\ Raises(resp)
          /\ GetMiss(maps[mi], resp)
    /\ Log(<< <<"lookup", cur>> >>)
    /\ aborted' = aborted \cup {cur}
    /\ Raise("LookupError")
    /\ replies' = [replies EXCEPT ![cur] = Append(@, blocks)]
    /\ UNCHANGED <<stream, seen, batch, idx, found, maps, mi, blocks, everSeen,
                   stoppedAt, slept, calls>>

LookupFail ==
    /\ pc = "format"
    /\ \E resp \in Responses :
          /\ Raises(resp)
          /\ GetMiss(maps[mi], resp)
    /\ Log(<< <<"lookup", cur>> >>)
    /\ aborted' = aborted \cup {cur}
    /\ Raise("LookupError")
    /\ UNCHANGED <<site, seen, batch, idx, found, maps, mi, blocks, everSeen,
                   stoppedAt, slept, calls>>

(***************************************************************************)
(* reply(comment, text): comment.reply(text).                              *)
(***************************************************************************)
Post(c, text) == replies' = [replies EXCEPT ![c] = Append(@, text)]

ReplyOk ==
    /\ pc = "reply"
    /\ Post(cur, blocks)
    /\ Log(<< <<"reply", cur>> >>)
    /\ idx' = idx + 1
    /\ pc' = "iter"
    /\ UNCHANGED <<stream, seen, cache, err, batch, found, maps, mi, blocks,
                   aborted, everSeen, stoppedAt, slept, lastCycle, calls>>

(* the call raises; the reply may or may not have reached the site *)
ReplyFail ==
    /\ pc = "reply"
    /\ \/ Post(cur, blocks)
       \/ UNCHANGED replies
    /\ Log(<< <<"reply", cur>> >>)
    /\ aborted' = aborted \cup {cur}
    /\ Raise("SinkError")
    /\ UNCHANGED <<stream, seen, cache, batch, idx, found, maps, mi, blocks,
                   everSeen, stoppedAt, slept, calls>>

(***************************************************************************)
(* The except clauses.                                                     *)
(***************************************************************************)
InTry == pc \in {"fetch", "iter", "has_replied", "format", "reply"}

(* the process ends: its memory is gone, the site keeps what was posted *)
Exit(cause) ==
    /\ pc' = "stopped"
    /\ err' = cause
    /\ seen' = <<>>
    /\ cache' = <<>>
    /\ batch' = <<>>
    /\ idx' = 1
    /\ found' = <<>>
    /\ maps' = <<>>
    /\ mi' = 1
    /\ blocks' = <<>>
    /\ trace' = <<>>
    /\ aborted' = {}
    /\ everSeen' = {}
    /\ stoppedAt' = 0
    /\ slept' = 0
    /\ lastCycle' = "none"
    /\ UNCHANGED <<site, calls>>

(* Ctrl-C while the try block runs; except KeyboardInterrupt: exit() *)
KeyboardInterrupt ==
    /\ InTry
    /\ Exit("KeyboardInterrupt")

(* mutant: the handler gives up and ends the process *)
OnException_exits ==
    /\ pc' = "stopped"
    /\ UNCHANGED <<seen, slept, err>>

(* mutant: the handler unmarks the comment it failed on *)
OnException_forgets ==
    /\ pc' = "sleeping"
    /\ seen' = SubSeq(seen, 1, Len(seen) - 1)
    /\ UNCHANGED <<slept, err>>

(* what the handler of Exception does before it sleeps *)
OnException ==
    /\ pc' = "sleeping"
    /\ UNCHANGED <<seen, slept, err>>

(* except Exception as e: the prints *)
HandleException ==
    /\ pc = "raised"
    /\ OnException
    /\ UNCHANGED <<site, cache, batch, idx, found, maps, mi, blocks, trace,
                   aborted, everSeen, stoppedAt, lastCycle, calls>>

(* time.sleep(15); continue *)
Sleep ==
    /\ pc = "sleeping"
    /\ slept' = slept + BACKOFF
    /\ pc' = "fetch"
    /\ err' = "none"
    /\ UNCHANGED <<site, seen, cache, batch, idx, found, maps, mi, blocks,
                   trace, aborted, everSeen, stoppedAt, lastCycle, calls>>

(* Ctrl-C inside the except clause is caught by nothing: the process dies *)
InterruptInHandler ==
    /\ pc \in {"raised", "sleeping"}
    /\ Exit("KeyboardInterrupt")

(* the operator starts the bot again: a new process, empty seen_comments
   and cache, the same site *)
Restart ==
    /\ pc = "stopped"
    /\ pc' = "fetch"
    /\ err' = "none"
    /\ UNCHANGED <<site, seen, cache, batch, idx, found, maps, mi, blocks,
                   trace, aborted, everSeen, stoppedAt, slept, lastCycle, calls>>

Loop ==
    \/ FetchOk
    \/ BatchDone
    \/ SeenBreak
    \/ NoMaps
    \/ FoundMaps
    \/ HasRepliedTrue
    \/ HasRepliedFalse
    \/ LookupHit
    \/ LookupFetch
    \/ ReplyOk
    \/ HandleException
    \/ Sleep

Failure ==
    \/ FetchFail
    \/ HasRepliedFail
    \/ LookupFail
    \/ ReplyFail

Next ==
    \/ NewComment
    \/ Loop
    \/ Failure
    \/ KeyboardInterrupt
    \/ InterruptInHandler
    \/ Restart

Spec == Init /\ [][Next]_vars

(* the interpreter keeps executing the loop: a step of the loop that can be
   taken is taken *)
FairSpec == Spec /\ WF_vars(Loop)


(***************************************************************************)
(* get_beatmap_info on its own: any caller, any key, any answer of the     *)
(* service.  Only the cache and the record of the calls change.            *)
(***************************************************************************)
CallKeys ==
    { <<"b", <<"1">>>>, <<"s", <<"1">>>>, <<"b", <<"2">>>>, <<"s", <<"2">>>> }

CallResponses == Responses \cup { [kind |-> "ok", payload |-> <<"r2">>] }

Called(key, outcome, value) ==
    lastCall' = [key |-> key, outcome |-> outcome, value |-> value,
                 pkey |-> lastCall.key, poutcome |-> lastCall.outcome,
                 pvalue |-> lastCall.value, tick |-> 1 - lastCall.tick]

(* the key becomes the most recently returned one *)
Used(key) ==
    recency' = Append(SelectSeq(recency, LAMBDA k : k # key), key)

loopVars == <<pc, err, batch, idx, found, maps, mi, blocks, trace, aborted,
              everSeen, stoppedAt, slept, lastCycle, seen>>

CallHit ==
    \E key \in CallKeys :
       /\ GetHit(key)
       /\ Called(key, "hit", CacheValue(cache, key))
       /\ failedKeys' = failedKeys \ {key}
       /\ Used(key)
       /\ UNCHANGED <<site, loopVars>>

CallFetch ==
    \E key \in CallKeys, resp \in CallResponses :
       /\ ~Raises(resp)
       /\ GetMiss(key, resp)
       /\ Called(key, "fetched", resp.payload)
       /\ failedKeys' = failedKeys \ {key}
       /\ Used(key)
       /\ UNCHANGED <<site, loopVars>>

CallFail ==
    \E key \in CallKeys, resp \in CallResponses :
       /\ Raises(resp)
       /\ GetMiss(key, resp)
       /\ Called(key, "failed", <<>>)
       /\ failedKeys' = failedKeys \cup {key}
       /\ UNCHANGED recency
       /\ UNCHANGED <<site, loopVars>>

CacheNext ==
    \/ CallHit
    \/ CallFetch
    \/ CallFail

CacheSpec == Init /\ [][CacheNext]_vars

(***************************************************************************)
(* Properties of the polling loop.                                         *)
(***************************************************************************)
HasMaps(c) == get_maps_from_string(stream[c]) # <<>>

EventsOf(t, c) == { i \in 1..Len(t) : t[i][2] = c }

(* C1: no comment ever carries more than one reply of the bot, and the loop
   is about to post a reply only under a comment that has none. *)
C1_AtMostOneReply ==
    /\ \A c \in Ids : Len(replies[c]) <= 1
    /\ pc = "reply" => replies[cur] = <<>>

(* has_replied stopped the loop on a comment that already had its reply *)
C1_Witness ==
    /\ pc = "fetch"
    /\ trace # <<>>
    /\ trace[Len(trace)][1] = "has_replied"
    /\ Len(replies[trace[Len(trace)][2]]) = 1

(* C2: if the bot is never stopped, failures cease and no payload is
   malformed, every comment with a map link that a batch returned gets a
   reply in the end. *)
C2_NoLostWork ==
    ([](pc # "stopped" /\ err # "IndexError") /\ <>[](lastCycle # "failed"))
        => \A c \in Ids :
              []((c \in Range(batch) /\ HasMaps(c)) => <>(replies[c] # <<>>))

(* C3: the process stops only on KeyboardInterrupt, and a raised exception
   leads back to the head of the loop unless the bot is interrupted. *)
C3_StopsOnlyOnInterrupt ==
    /\ [](pc = "stopped" => err = "KeyboardInterrupt")
    /\ (pc = "raised") ~> (pc = "fetch" \/ pc = "stopped")

(* a cycle has started after a cycle that failed *)
C3_Witness ==
    /\ pc = "iter"
    /\ trace = <<>>
    /\ lastCycle = "failed"
    /\ batch # <<>>

(* C4: once a cycle met a seen id it is over: every newer comment of the
   batch was marked, the seen one and every older one were not touched. *)
C4_StopAtFirstSeen ==
    stoppedAt # 0 =>
        /\ pc = "fetch"
        /\ \A k \in 1..(stoppedAt - 1) : <<"add", batch[k]>> \in Range(trace)
        /\ \A k \in stoppedAt..Len(batch) : EventsOf(trace, batch[k]) = {}

(* the batch [c1 new, c2 seen, c3 never seen] *)
C4_Witness ==
    /\ stoppedAt = 2
    /\ Len(batch) = 3
    /\ batch[3] \notin everSeen
    /\ <<"extract", batch[1]>> \in Range(trace)

(* C5: when a cycle stops at a seen id, every older comment of the batch
   has been added to seen_comments before. *)
C5_OlderAllSeen ==
    stoppedAt # 0 =>
        \A k \in (stoppedAt + 1)..Len(batch) : batch[k] \in everSeen

(* C6: no step of the loop is ever run again for a comment whose
   processing an exception cut short. *)
C6_NeverRetried ==
    [][\A c \in aborted :
          Cardinality(EventsOf(trace', c)) <= Cardinality(EventsOf(trace, c))]_vars

(* a later cycle met an aborted comment that has no reply, and stopped *)
C6_Witness ==
    /\ stoppedAt # 0
    /\ batch[stoppedAt] \in aborted
    /\ replies[batch[stoppedAt]] = <<>>
    /\ HasMaps(batch[stoppedAt])

(* C7: from the raise to the next fetch seen_comments does not change, so
   every id the failed cycle added is still in it. *)
C7_NoUnmark ==
    /\ [][(pc \in {"raised", "sleeping"} /\ pc' # "stopped") => seen' = seen]_vars
    /\ []((lastCycle = "failed" /\ pc \in {"raised", "sleeping", "fetch"}) =>
            \A i \in 1..Len(trace) :
               trace[i][1] = "add" => LimitedSetContains(seen, trace[i][2]))

(* a lookup failed for a comment; it is still marked when the sleep starts *)
C7_Witness ==
    /\ pc = "sleeping"
    /\ err = "LookupError"
    /\ LimitedSetContains(seen, cur)
    /\ <<"lookup", cur>> \in Range(trace)

(* C8: at the head of the loop the bot has slept BACKOFF seconds if the
   last cycle failed and not at all otherwise. *)
C8_BackoffIffFailed ==
    pc = "fetch" => slept = (IF lastCycle = "failed" THEN BACKOFF ELSE 0)

C8_Witness ==
    /\ pc = "fetch"
    /\ lastCycle = "failed"
    /\ slept = BACKOFF

(***************************************************************************)
(* Properties of get_beatmap_info.                                         *)
(***************************************************************************)
Fetches(outcome) == outcome \in {"fetched", "failed"}

(* C9, as stated: of two consecutive calls with the same key at most one
   goes to the service. *)
C9_AtMostOneFetch ==
    (lastCall.poutcome # "none" /\ lastCall.pkey = lastCall.key) =>
        ~(Fetches(lastCall.poutcome) /\ Fetches(lastCall.outcome))

(* C9, amended: after a call that returned, the next call with the same key
   is a hit and returns the same payload. *)
C9_HitAfterReturn ==
    (lastCall.poutcome \in {"hit", "fetched"} /\ lastCall.pkey = lastCall.key) =>
        /\ lastCall.outcome = "hit"
        /\ lastCall.value = lastCall.pvalue

C9_Witness ==
    /\ lastCall.poutcome = "fetched"
    /\ lastCall.pkey = lastCall.key
    /\ lastCall.outcome = "hit"
    /\ lastCall.value = <<"r2">>

(* C10: a call that raises leaves the cache as it was, and the next call
   with a key whose latest call raised goes to the service. *)
C10_FailureNotCached ==
    [][lastCall'.tick # lastCall.tick =>
          /\ lastCall'.outcome = "failed" => cache' = cache
          /\ lastCall'.key \in failedKeys => Fetches(lastCall'.outcome)]_vars

(* the call after a failed one, same key, went to the service and its
   result is cached *)
C10_Witness ==
    /\ lastCall.poutcome = "failed"
    /\ lastCall.pkey = lastCall.key
    /\ lastCall.outcome = "fetched"
    /\ lastCall.key \in CacheKeys(cache)

(* the cached key that was returned least recently *)
LeastRecent ==
    LET pos(k) == CHOOSE i \in 1..Len(recency) : recency[i] = k
    IN CHOOSE k \in CacheKeys(cache) :
          \A j \in CacheKeys(cache) : pos(k) <= pos(j)

Entries(c) == Range(c)

(* C11: the cache never holds more than OSU_CACHE entries, one per key, and
   a miss stored into a full cache drops exactly the entry returned least
   recently. *)
C11_BoundedLru ==
    /\ [](Len(cache) <= OSU_CACHE /\ Cardinality(CacheKeys(cache)) = Len(cache))
    /\ [][(lastCall'.tick # lastCall.tick /\ lastCall'.outcome = "fetched"
             /\ Len(cache) = OSU_CACHE) =>
            Entries(cache') =
               { e \in Entries(cache) : e.key # LeastRecent }
                  \cup { [key |-> lastCall'.key, value |-> lastCall'.value] }]_vars

(* a hit refreshed the oldest entry, so the next miss dropped another one *)
C11_Witness ==
    /\ Len(cache) = OSU_CACHE
    /\ lastCall.outcome = "fetched"
    /\ lastCall.poutcome = "hit"
    /\ lastCall.pkey # lastCall.key
    /\ lastCall.pkey \in CacheKeys(cache)
    /\ Len(recency) > OSU_CACHE

(***************************************************************************)
(* seen_comments on its own: ids are added the way the loop adds them,     *)
(* only after the membership test failed.  trace records the adds.         *)
(***************************************************************************)
SetIds == 1..(MAX_COMMENTS + SLACK + 2)

SetAdd ==
    /\ Len(trace) < MaxAdds
    /\ \E x \in SetIds :
          /\ ~LimitedSetContains(seen, x)
          /\ seen' = LimitedSetAdd(seen, x, SeenCapacity)
          /\ everSeen' = everSeen \cup {x}
          /\ trace' = Append(trace, <<"add", x>>)
    /\ UNCHANGED <<site, cache, pc, err, batch, idx, found, maps, mi, blocks,
                   aborted, stoppedAt, slept, lastCycle, calls>>

SetNext == SetAdd

SetSpec == Init /\ [][SetNext]_vars

(* the ids added so far, in order *)
Added == [i \in 1..Len(trace) |-> trace[i][2]]

(* C12: seen_comments holds at most MAX_COMMENTS + SLACK ids, always the
   most recently added ones in the order they were added, and no id added
   before the oldest of them unless it was added again since. *)
C12_KeepsMostRecent ==
    LET C == MAX_COMMENTS + SLACK
        n == Len(Added)
        kept == IF n > C THEN SubSeq(Added, n - C + 1, n) ELSE Added
    IN /\ Len(seen) <= C
       /\ seen = kept
       /\ \A i \in 1..(n - Len(kept)) :
             Added[i] \notin Range(kept) => ~LimitedSetContains(seen, Added[i])

(* more ids were added than fit: the first one is forgotten, and an id that
   had been forgotten is back *)
C12_Witness ==
    /\ Len(trace) > SeenCapacity + 1
    /\ ~LimitedSetContains(seen, trace[1][2])
    /\ \E i \in 1..Len(seen) : \E j \in 1..(Len(trace) - Len(seen)) :
          trace[j][2] = seen[i]

KeyB1 == <<"b", <<"1">>>>
KeyS1 == <<"s", <<"1">>>>

(* C13: a hit returns the payload stored under exactly the key asked for,
   and the first call for a key goes to the service whatever is cached for
   other keys, the same id of the other kind included. *)
C13_ExactKeys ==
    /\ [](lastCall.outcome = "hit" =>
            [key |-> lastCall.key, value |-> lastCall.value] \in Entries(cache))
    /\ [][(lastCall'.tick # lastCall.tick /\ lastCall'.key \notin Range(recency))
            => Fetches(lastCall'.outcome)]_vars

(* ("b", 1) and ("s", 1) are cached side by side with different payloads,
   and a hit on the second returned its own *)
C13_Witness ==
    /\ CacheKeys(cache) = {KeyB1, KeyS1}
    /\ CacheValue(cache, KeyB1) # CacheValue(cache, KeyS1)
    /\ lastCall.outcome = "hit"
    /\ lastCall.key = KeyS1
    /\ lastCall.value = CacheValue(cache, KeyS1)

(***************************************************************************)
(* format_comment on its own: reply(comment, format_comment(found)) for    *)
(* the newest of two comments, whose body is any sequence of beatmap       *)
(* links, on an empty or a warm cache; a failure goes through the handler. *)
(***************************************************************************)
FormatLinks == { LinkB1, LinkS1, LinkB2 }

FormatBodies == UNION { [1..n -> FormatLinks] : n \in 1..MaxKeys }

FormatInit ==
    /\ \E b \in FormatBodies :
          /\ stream = << <<LinkS1>>, b >>
          /\ found = get_maps_from_string(b)
    /\ replies = [c \in Ids |-> <<>>]
    /\ seen = <<2>>
    /\ cache \in { <<>>, <<[key |-> KeyB1, value |-> <<"r1">>]>> }
    /\ pc = "has_replied"
    /\ err = "none"
    /\ batch = <<2, 1>>
    /\ idx = 1
    /\ maps = <<>>
    /\ mi = 1
    /\ blocks = <<>>
    /\ trace = <<>>
    /\ aborted = {}
    /\ everSeen = {2}
    /\ stoppedAt = 0
    /\ slept = 0
    /\ lastCycle = "none"
    /\ lastCall = NoCall
    /\ failedKeys = {}
    /\ recency = <<>>

FormatNext ==
    \/ HasRepliedFalse
    \/ LookupHit
    \/ LookupFetch
    \/ LookupFail
    \/ ReplyOk
    \/ HandleException
    \/ Sleep

FormatSpec == FormatInit /\ [][FormatNext]_vars

(* the distinct keys of a sequence, in order of first occurrence *)
RECURSIVE Firsts(_)
Firsts(f) ==
    IF f = <<>> THEN <<>>
    ELSE <<Head(f)>> \o Firsts(SelectSeq(Tail(f), LAMBDA k : k # Head(f)))

BlockKeys(bs) == [i \in 1..Len(bs) |-> bs[i][1]]

Lookups == Cardinality({ i \in 1..Len(trace) : trace[i][1] = "lookup" })

(* C14: the text handed to reply, and the reply posted, hold one block per
   distinct key of the input in order of first occurrence, and producing
   them took one format_map call (one lookup) per distinct key. *)
C14_OneBlockPerKey ==
    /\ pc = "reply" =>
          /\ BlockKeys(blocks) = Firsts(found)
          /\ Lookups = Cardinality(Range(found))
    /\ \A i \in 1..Len(replies[2]) : BlockKeys(replies[2][i]) = Firsts(found)
    /\ Lookups <= Cardinality(Range(found))

(* a key given twice around another one: two blocks, first occurrences *)
C14_Witness ==
    /\ Len(found) = 3
    /\ found[1] = found[3]
    /\ found[1] # found[2]
    /\ replies[2] # <<>>
    /\ BlockKeys(replies[2][1]) = <<found[1], found[2]>>

(***************************************************************************)
(* get_maps_from_string on its own: the first comment of a batch, with any *)
(* sequence of anchors as its body.                                        *)
(***************************************************************************)
Anchors ==
    { LinkB1, LinkS1, LinkB2, LinkQueryB1, LinkQueryS1, LinkQueryNone,
      LinkUser, LinkSpoofed, LinkOtherHost }

AnchorSeqs == UNION { [1..n -> Anchors] : n \in 0..MaxAnchors }

ExtractInit ==
    /\ stream \in { <<b>> : b \in AnchorSeqs }
    /\ replies = [c \in Ids |-> <<>>]
    /\ seen = <<>>
    /\ cache = <<>>
    /\ pc = "iter"
    /\ err = "none"
    /\ batch = <<1>>
    /\ idx = 1
    /\ found = <<>>
    /\ maps = <<>>
    /\ mi = 1
    /\ blocks = <<>>
    /\ trace = <<>>
    /\ aborted = {}
    /\ everSeen = {}
    /\ stoppedAt = 0
    /\ slept = 0
    /\ lastCycle = "none"
    /\ lastCall = NoCall
    /\ failedKeys = {}
    /\ recency = <<>>

ExtractNext ==
    \/ NoMaps
    \/ FoundMaps

ExtractSpec == ExtractInit /\ [][ExtractNext]_vars

(* what each anchor of Anchors is to yield: the key of its URL when the text
   repeats the href and the URL has one of the four shapes, nothing else *)
ExpectedKeys(a) ==
    CASE a = LinkB1 -> <<KeyB1>>
      [] a = LinkS1 -> <<KeyS1>>
      [] a = LinkB2 -> << <<"b", <<"2">>>> >>
      [] a = LinkQueryB1 -> <<KeyB1>>
      [] a = LinkQueryS1 -> <<KeyS1>>
      [] OTHER -> <<>>

RECURSIVE ExpectedFound(_)
ExpectedFound(body) ==
    IF body = <<>> THEN <<>>
    ELSE ExpectedKeys(Head(body)) \o ExpectedFound(Tail(body))

Extracted == \E i \in 1..Len(trace) : trace[i] = <<"extract", 1>>

(* C15: once the body has been extracted, found is the keys of the anchors
   with matching text and a recognised shape, in order of occurrence,
   duplicates kept; every other anchor contributes nothing and no error is
   raised. *)
C15_Extraction ==
    Extracted => found = ExpectedFound(stream[1]) /\ err = "none"

(* a spoofed anchor between two anchors of the same beatmap *)
C15_Witness ==
    /\ Extracted
    /\ stream[1] = <<LinkB1, LinkSpoofed, LinkQueryB1>>
    /\ found = <<KeyB1, KeyB1>>

(***************************************************************************)
(* The order of the steps taken for one comment.                           *)
(***************************************************************************)
PrevEvent(i) == IF i > 1 THEN trace[i - 1] ELSE <<"none", 0>>

(* C16: in the events of a cycle, the add of a comment's id comes before
   every other event of that comment, extraction directly follows the add,
   has_replied directly follows extraction, a lookup follows has_replied or
   an earlier lookup of the same comment, and the reply follows a lookup;
   while formatting or replying the comment has no reply of the bot yet and
   its key sequence is not empty. *)
C16_StepOrder ==
    /\ \A i \in 1..Len(trace) :
          LET e == trace[i][1]
              c == trace[i][2]
          IN /\ e = "add" => \A j \in 1..(i - 1) : trace[j][2] # c
             /\ e = "extract" => PrevEvent(i) = <<"add", c>>
             /\ e = "has_replied" => PrevEvent(i) = <<"extract", c>>
             /\ e = "lookup" => PrevEvent(i) \in { <<"has_replied", c>>, <<"lookup", c>> }
             /\ e = "reply" => PrevEvent(i) = <<"lookup", c>>
    /\ pc \in {"format", "reply"} =>
          /\ found # <<>>
          /\ maps # <<>>
          /\ ~has_replied(cur)
          /\ \E i \in 1..Len(trace) : trace[i] = <<"has_replied", cur>>

(* a second comment of the batch went through all five steps *)
C16_Witness ==
    /\ Len(trace) >= 7
    /\ trace[Len(trace)][1] = "reply"
    /\ trace[Len(trace) - 1][1] = "lookup"
    /\ trace[Len(trace) - 2][1] = "lookup"
    /\ trace[Len(trace) - 3][1] = "has_replied"
    /\ trace[1][2] # trace[Len(trace)][2]

(***************************************************************************)
(* The two ways a new comment is left without a reply.                     *)
(***************************************************************************)
LastEvent == IF trace = <<>> THEN <<"none", 0>> ELSE trace[Len(trace)]

(* has_replied(comment, r) has just returned: the check was logged and
   nothing was raised or interrupted *)
HasRepliedReturns ==
    /\ pc = "has_replied"
    /\ trace' = Append(trace, <<"has_replied", cur>>)
    /\ pc' \notin {"raised", "stopped"}

(* C17: when has_replied returns true the loop leaves the batch: the next
   step is a new fetch, the cycle is clean and not followed by a sleep, the
   check is the last event of the cycle (no lookup, no reply, no older
   comment), the site and the cache are untouched and the comment's id is
   still in seen_comments. *)
C17_BreakOnReplied ==
    [][(HasRepliedReturns /\ has_replied(cur)) =>
          /\ pc' = "fetch"
          /\ lastCycle' = "clean"
          /\ slept' = 0
          /\ idx' = idx
          /\ replies' = replies
          /\ cache' = cache
          /\ seen' = seen
          /\ LimitedSetContains(seen', cur)]_vars

C17_AfterBreak ==
    /\ pc = "fetch"
    /\ lastCycle = "clean"
    /\ batch # <<>>
    /\ idx <= Len(batch)
    /\ LastEvent = <<"has_replied", batch[idx]>>

(* the bot had replied in an earlier run, and an older comment of the batch
   is left unexamined *)
C17_Witness ==
    /\ C17_AfterBreak
    /\ has_replied(batch[idx])
    /\ LimitedSetContains(seen, batch[idx])
    /\ idx < Len(batch)
    /\ batch[idx + 1] \notin everSeen
    /\ HasMaps(batch[idx + 1])

(* the extraction of the current comment has just returned *)
ExtractReturns ==
    /\ pc = "iter"
    /\ idx <= Len(batch)
    /\ trace' = trace \o << <<"add", cur>>, <<"extract", cur>> >>

(* C18: when the extraction of a new comment yields no key, the loop moves
   on to the next comment of the same batch: no exception, nothing posted,
   nothing looked up, the id is in seen_comments; and in the events of a
   cycle a comment without maps has its add and its extraction only. *)
C18_SkipWithoutMaps ==
    /\ [][(ExtractReturns /\ ~HasMaps(cur)) =>
             /\ pc' = "iter"
             /\ idx' = idx + 1
             /\ batch' = batch
             /\ err' = err
             /\ lastCycle' = lastCycle
             /\ replies' = replies
             /\ cache' = cache
             /\ LimitedSetContains(seen', cur)]_vars
    /\ [](\A i \in 1..Len(trace) :
             ~HasMaps(trace[i][2]) => trace[i][1] \in {"add", "extract"})

(* the newest comment had no maps and the next older one was taken up *)
C18_Witness ==
    /\ Len(trace) >= 4
    /\ Len(batch) >= 2
    /\ ~HasMaps(batch[1])
    /\ trace[2] = <<"extract", batch[1]>>
    /\ trace[3] = <<"add", batch[2]>>
    /\ LimitedSetContains(seen, batch[1])

(***************************************************************************)
(* A failure while the reply is being formatted.                           *)
(***************************************************************************)
(* get_beatmap_info or the rest of format_map raises for maps[mi] *)
FormatFails == pc = "format" /\ pc' = "raised"

(* C19, as stated: when formatting has failed, the record of every earlier
   key of the comment is in the cache. *)
C19_EarlierRecordsStay ==
    (pc = "raised" /\ err \in {"LookupError", "IndexError"}) =>
        \A j \in 1..(mi - 1) : IsHit(cache, maps[j])

(* C19, amended: the failing step posts nothing and leaves the batch where
   it is; it removes no record from the cache except the least recently
   used one, when the cache is full and the record that cannot be formatted
   is stored; and back at the head of the loop the comment has no reply and
   no later comment of the batch has been examined. *)
C19_FailureAbandons ==
    /\ [][FormatFails =>
             /\ replies' = replies
             /\ idx' = idx
             /\ LET gone == Entries(cache) \ Entries(cache')
                IN /\ gone \subseteq (IF Len(cache) = OSU_CACHE THEN {cache[1]} ELSE {})
                   /\ gone # {} => [key |-> maps[mi], value |-> <<>>] \in Entries(cache')]_vars
    /\ []((pc \in {"raised", "sleeping", "fetch"} /\ lastCycle = "failed"
             /\ LastEvent[1] = "lookup") =>
             /\ replies[LastEvent[2]] = <<>>
             /\ batch[idx] = LastEvent[2]
             /\ \A k \in (idx + 1)..Len(batch) : batch[k] \notin everSeen)

(* the second key of a comment failed after the first was fetched: the
   first record is cached, nothing was posted, the older comment waits *)
C19_Witness ==
    /\ pc = "fetch"
    /\ lastCycle = "failed"
    /\ LastEvent[1] = "lookup"
    /\ mi = 2
    /\ Len(blocks) = 1
    /\ IsHit(cache, maps[1])
    /\ ~IsHit(cache, maps[2])
    /\ replies[batch[idx]] = <<>>
    /\ idx < Len(batch)

(***************************************************************************)
(* The capacity of seen_comments against the fetch window.                 *)
(***************************************************************************)
(* C20, as stated: whenever the loop tests a comment of the batch that this
   process added to seen_comments before, the id is still in the set. *)
C20_NeverForgets ==
    (pc = "iter" /\ idx <= Len(batch) /\ cur \in everSeen) =>
        LimitedSetContains(seen, cur)

====
